---- MODULE Spec2Model ----
(***************************************************************************)
(* A model of simulasi.py: the sample scheduler, the mixture synthesizer   *)
(* and the dataset-generation driver with its persistence.                 *)
(*                                                                         *)
(* Units.  Temperatures are kelvin and are perfect squares, so that        *)
(* T ** 0.5 is an integer.  Electron densities are in units of 1e14 cm^-3. *)
(* Energies are in eV.  A real number that the code computes as a quotient *)
(* is kept as a pair <<numerator, denominator>>.                           *)
(***************************************************************************)
EXTENDS Integers, Sequences, FiniteSets, TLC

\* Python's None and a value that is not None
None == <<>>
Some(v) == <<v>>

Min(a, b) == IF a < b THEN a ELSE b
Max(a, b) == IF a > b THEN a ELSE b

Range(s) == {s[j] : j \in 1..Len(s)}

RECURSIVE SumSeq(_)
SumSeq(s) == IF Len(s) = 0 THEN 0 ELSE s[1] + SumSeq(Tail(s))

RECURSIVE MaxSeq(_)
MaxSeq(s) == IF Len(s) = 1 THEN s[1] ELSE Max(s[1], MaxSeq(Tail(s)))

\* The sequences of length n over S without repetition.
RECURSIVE InjSeqs(_, _)
InjSeqs(S, n) ==
    IF n = 0 THEN {<<>>}
    ELSE UNION {{Append(s, x) : x \in S \ Range(s)} : s \in InjSeqs(S, n - 1)}

\* floor(sqrt(n)); exact for the perfect squares the model uses.
RECURSIVE ISqrtFrom(_, _)
ISqrtFrom(n, r) == IF (r + 1) * (r + 1) > n THEN r ELSE ISqrtFrom(n, r + 1)
ISqrt(n) == ISqrtFrom(n, 0)

(***************************************************************************)
(* Bounds of the model.                                                    *)
(***************************************************************************)
\* the largest total count the scheduler is checked with
MaxSchedSamples == 5
\* the longest temperature list the scheduler is checked with
MaxTemps == 3
\* the largest number of accepted samples the partitioning is checked with
MaxSplitSamples == 90
\* up to this many samples the partitioning is checked with every permutation
MaxFullPerm == 4
\* num_target_elements: the model selects 2 of its 3 base elements where the
\* code selects 7 of 10
NumTargetElements == 2
\* the number of runs of generate_dataset on one output directory
MaxRuns == 2
\* the number of generate_sample calls the random stream is followed for
MaxCalls == 3
\* the number of calls made on one SpectrumSimulator
MaxSimCalls == 3

\* calls of _save_combination in its harness
MaxLogCalls == 3

(***************************************************************************)
(* Module-level data of simulasi.py.                                       *)
(***************************************************************************)
\* BASE_ELEMENTS, three of the ten
BASE_ELEMENTS == <<"Si", "Al", "Fe">>

\* REQUIRED_ELEMENTS: every base element as neutral (1) and ion (2); the
\* species "Si_1" is the pair <<"Si", 1>>.
REQUIRED_ELEMENTS ==
    [j \in 1..(2 * Len(BASE_ELEMENTS)) |->
        <<BASE_ELEMENTS[(j + 1) \div 2], IF j % 2 = 1 THEN 1 ELSE 2>>]

\* temperatures a configuration may list (perfect squares)
ModelTemperatures == <<6400, 10000, 14400, 19600, 25600>>

\* electron-density candidate lists a configuration may hold (1e14 cm^-3)
DensityConfigs == {<<100>>, <<50, 100, 200>>}

\* delta_E_max dictionaries: one value per species, 0 when the species has
\* no transition data
DeltaEDicts ==
    {[s \in Range(REQUIRED_ELEMENTS) |-> 0],
     [s \in Range(REQUIRED_ELEMENTS) |-> IF s = <<"Si", 1>> THEN 2 ELSE 0],
     [s \in Range(REQUIRED_ELEMENTS) |-> IF s[2] = 1 THEN 5 ELSE 3]}

(***************************************************************************)
(* DatasetGenerator._generate_sample_params                                *)
(***************************************************************************)
\* n_e_min = 1.6e12 * T**0.5 * delta_E**3 cm^-3, which is
\* (2/125) * sqrt(T) * delta_E^3 in units of 1e14 cm^-3
CalculateLteElectronDensity(temp, delta_E) ==
    <<2 * ISqrt(temp) * delta_E * delta_E * delta_E, 125>>

\* max of the positive values of the dictionary, 4.0 when there is none
DeltaEMaxValue(delta_E_max_dict) ==
    LET delta_E_values ==
            {delta_E_max_dict[s] : s \in DOMAIN delta_E_max_dict} \ {0}
    IN  IF delta_E_values = {} THEN 4
        ELSE CHOOSE v \in delta_E_values : \A w \in delta_E_values : w <= v

\* a variant of the quota: the remainder goes to the last temperatures
NSamplesForTempLast(i, cfg) ==
    LET num_temperatures == Len(cfg.temperature_range)
        samples_per_temp == cfg.num_samples \div num_temperatures
        remainder        == cfg.num_samples % num_temperatures
    IN  samples_per_temp + (IF num_temperatures - i < remainder THEN 1 ELSE 0)

\* samples_per_temp + (1 if i < remainder else 0); i counts from 1 here
NSamplesForTemp(i, cfg) ==
    LET num_temperatures == Len(cfg.temperature_range)
        samples_per_temp == cfg.num_samples \div num_temperatures
        remainder        == cfg.num_samples % num_temperatures
    IN  samples_per_temp + (IF i - 1 < remainder THEN 1 ELSE 0)

\* a variant of the filter: every candidate passes
ValidNeUnfiltered(i, cfg, delta_E_max_dict) == cfg.electron_density_range

\* valid_n_e: the candidates >= n_e_min, the whole range when none is
ValidNe(i, cfg, delta_E_max_dict) ==
    LET n_e_min == CalculateLteElectronDensity(cfg.temperature_range[i],
                                               DeltaEMaxValue(delta_E_max_dict))
        valid   == SelectSeq(cfg.electron_density_range,
                             LAMBDA n_e : n_e * n_e_min[2] >= n_e_min[1])
    IN  IF Len(valid) = 0 THEN cfg.electron_density_range ELSE valid

MaxNePerTemp(i, cfg, delta_E_max_dict) ==
    LET m == Min(Len(ValidNe(i, cfg, delta_E_max_dict)), 5)
    IN  IF m = 0 THEN Len(cfg.electron_density_range) ELSE m

\* What the random generator decides for temperature i: sel, the positions
\* np.random.choice(valid_n_e, size, replace=False) draws, and add, the
\* positions of selected_n_e the second choice (replace=True) draws.
TempChoices(i, cfg, delta_E_max_dict) ==
    LET valid == ValidNe(i, cfg, delta_E_max_dict)
        m     == MaxNePerTemp(i, cfg, delta_E_max_dict)
        n     == NSamplesForTemp(i, cfg)
        extra == IF m < n THEN n - m ELSE 0
    IN  {[sel |-> s, add |-> a] :
            s \in InjSeqs(1..Len(valid), m), a \in [1..extra -> 1..m]}

\* temp_specific_params[T]
TempSpecificParams(i, cfg, delta_E_max_dict, c) ==
    LET valid        == ValidNe(i, cfg, delta_E_max_dict)
        n            == NSamplesForTemp(i, cfg)
        chosen       == [j \in 1..Len(c.sel) |-> valid[c.sel[j]]]
        selected_n_e == IF Len(chosen) < n
                        THEN chosen \o [j \in 1..Len(c.add) |-> chosen[c.add[j]]]
                        ELSE chosen
    IN  [j \in 1..n |-> <<cfg.temperature_range[i], selected_n_e[j]>>]

\* One pass of "for T in self.temperature_range" from position t on;
\* indices[t] pairs of temperature t are already taken.
RECURSIVE ForTemperatures(_, _, _, _)
ForTemperatures(params, indices, t, sample_params) ==
    IF t > Len(params) THEN <<indices, sample_params>>
    ELSE IF Len(params[t]) - indices[t] > 0
         THEN ForTemperatures(params, [indices EXCEPT ![t] = @ + 1], t + 1,
                              Append(sample_params, params[t][indices[t] + 1]))
         ELSE ForTemperatures(params, indices, t + 1, sample_params)

\* while total_remaining > 0
RECURSIVE WhileRemaining(_, _, _)
WhileRemaining(params, indices, sample_params) ==
    IF SumSeq([t \in 1..Len(params) |-> Len(params[t]) - indices[t]]) > 0
    THEN LET r == ForTemperatures(params, indices, 1, sample_params)
         IN  WhileRemaining(params, r[1], r[2])
    ELSE sample_params

\* a variant of the interleaving: the lists one after the other
InterleaveBlocks(params) ==
    IF Len(params) = 0 THEN <<>>
    ELSE LET RECURSIVE Blocks(_)
             Blocks(t) == IF t = 0 THEN <<>> ELSE Blocks(t - 1) \o params[t]
         IN  Blocks(Len(params))

\* lines 474-486
Interleave(params) ==
    WhileRemaining(params, [t \in 1..Len(params) |-> 0], <<>>)

\* the duplication of random entries when the list is short, pad holding the
\* indices np.random.randint draws
RECURSIVE PadSamples(_, _, _)
PadSamples(sample_params, num_samples, pad) ==
    IF Len(sample_params) < num_samples /\ Len(pad) > 0
    THEN PadSamples(Append(sample_params, sample_params[pad[1]]), num_samples, Tail(pad))
    ELSE sample_params

GenerateSampleParams(cfg, delta_E_max_dict, ch) ==
    LET params == [i \in 1..Len(cfg.temperature_range) |->
                      TempSpecificParams(i, cfg, delta_E_max_dict, ch.temps[i])]
        sample_params == Interleave(params)
    IN  IF Len(sample_params) < cfg.num_samples
        THEN PadSamples(sample_params, cfg.num_samples, ch.pad)
        ELSE IF Len(sample_params) > cfg.num_samples
             THEN SubSeq(sample_params, 1, cfg.num_samples)
             ELSE sample_params

\* every outcome of the random generator inside _generate_sample_params
RECURSIVE AllTempChoices(_, _, _)
AllTempChoices(i, cfg, delta_E_max_dict) ==
    IF i = 0 THEN {<<>>}
    ELSE {Append(cs, c) : cs \in AllTempChoices(i - 1, cfg, delta_E_max_dict),
                          c \in TempChoices(i, cfg, delta_E_max_dict)}

SchedChoices(cfg, delta_E_max_dict) ==
    UNION {
        LET short == cfg.num_samples - SumSeq([i \in 1..Len(tc) |-> NSamplesForTemp(i, cfg)])
        IN  {[temps |-> tc, pad |-> p] :
                p \in [1..(IF short > 0 THEN short ELSE 0) -> 1..Max(1, cfg.num_samples)]}
        : tc \in AllTempChoices(Len(cfg.temperature_range), cfg, delta_E_max_dict)}

(***************************************************************************)
(* Configuration (SIMULATION_CONFIG).  The model's grids have 8 bins.  A   *)
(* configuration is a record with the fields of the dictionary.            *)
(***************************************************************************)
Config(num_samples, wl_range) ==
    [resolution             |-> 8,
     wl_range               |-> wl_range,
     sigma                  |-> (wl_range[2] - wl_range[1]) \div 7,
     convolution_sigma      |-> (wl_range[2] - wl_range[1]) \div 14,
     num_samples            |-> num_samples,
     temperature_range      |-> SubSeq(ModelTemperatures, 1, 2),
     electron_density_range |-> <<100, 200>>]

\* np.linspace(wl_range[0], wl_range[1], resolution)
Wavelengths(cfg) ==
    [k \in 1..cfg.resolution |->
        cfg.wl_range[1]
            + ((k - 1) * (cfg.wl_range[2] - cfg.wl_range[1])) \div (cfg.resolution - 1)]

(***************************************************************************)
(* SpectrumSimulator.  A simulator is a record [element, ion, nist_data];  *)
(* a transition of nist_data is [wl, intensity], intensity standing for    *)
(* the positive value _calculate_intensity gives the line.  Arrays are     *)
(* sequences: position k holds the code's index k - 1.                     *)
(***************************************************************************)
\* np.searchsorted(self.wavelengths, wl): the number of grid points below wl
SearchSorted(wavelengths, wl) ==
    Cardinality({k \in 1..Len(wavelengths) : wavelengths[k] < wl})

\* the Gaussian exp(-0.5 ((x - center) / sigma)^2) / (sigma sqrt(2 pi)) in
\* whole numbers: it falls with the distance and vanishes beyond 2 sigma
GaussianValue(x, center, sigma) ==
    LET d == IF x >= center THEN x - center ELSE center - x
    IN  IF d = 0 THEN 4 ELSE IF d <= sigma THEN 2 ELSE IF d <= 2 * sigma THEN 1 ELSE 0

\* _gaussian_profile(center): the profile over the whole grid
GaussianProfile(center, cfg) ==
    LET wavelengths == Wavelengths(cfg)
    IN  [k \in 1..cfg.resolution |-> GaussianValue(wavelengths[k], center, cfg.sigma)]

\* a variant of the cache: a new center replaces the stored ones
GaussianCacheLatest(gaussian_cache, center, cfg) ==
    IF center \in DOMAIN gaussian_cache THEN gaussian_cache
    ELSE [c \in {center} |-> GaussianProfile(center, cfg)]

\* gaussian_cache after _gaussian_profile(center): a center not in the cache
\* is computed and stored, the other entries stay
GaussianCache(gaussian_cache, center, cfg) ==
    IF center \in DOMAIN gaussian_cache THEN gaussian_cache
    ELSE [c \in DOMAIN gaussian_cache \cup {center} |->
             IF c = center THEN GaussianProfile(center, cfg) ELSE gaussian_cache[c]]

\* the transitions whose profile simulate asks for: 0 <= idx < resolution
RECURSIVE CacheAfterSimulate(_, _, _)
CacheAfterSimulate(gaussian_cache, nist_data, cfg) ==
    IF Len(nist_data) = 0 THEN gaussian_cache
    ELSE LET idx == SearchSorted(Wavelengths(cfg), nist_data[1].wl)
         IN  CacheAfterSimulate(
                 IF 0 <= idx /\ idx < cfg.resolution
                 THEN GaussianCache(gaussian_cache, nist_data[1].wl, cfg)
                 ELSE gaussian_cache,
                 Tail(nist_data), cfg)

\* lines 219-231 for one transition: what it adds to the spectrum
LineContribution(data, atom_percentage, cfg) ==
    LET idx     == SearchSorted(Wavelengths(cfg), data.wl)
        profile == GaussianProfile(data.wl, cfg)
        gaussian_contribution ==
            [k \in 1..cfg.resolution |-> data.intensity * atom_percentage * profile[k]]
        start_idx == Max(0, idx - Len(gaussian_contribution) \div 2)
        end_idx   == Min(cfg.resolution, start_idx + Len(gaussian_contribution))
    IN  [k \in 1..cfg.resolution |->
            IF 0 <= idx /\ idx < cfg.resolution /\ start_idx < end_idx
               /\ start_idx <= k - 1 /\ k - 1 < end_idx
            THEN gaussian_contribution[k - start_idx]
            ELSE 0]

\* the sum of arrays of one length
RECURSIVE SumArrays(_, _)
SumArrays(arrays, n) ==
    IF Len(arrays) = 0 THEN [k \in 1..n |-> 0]
    ELSE LET rest == SumArrays(Tail(arrays), n)
         IN  [k \in 1..n |-> arrays[1][k] + rest[k]]

\* simulate(atom_percentage) at one temperature: the spectrum, which is also
\* the element-contribution array (both accumulate the same terms); <<>>
\* when the simulator has no transition
Simulate(sim, atom_percentage, cfg) ==
    IF Len(sim.nist_data) = 0 THEN <<>>
    ELSE SumArrays([j \in 1..Len(sim.nist_data) |->
                       LineContribution(sim.nist_data[j], atom_percentage, cfg)],
                   cfg.resolution)

(***************************************************************************)
(* MixedSpectrumSimulator                                                  *)
(***************************************************************************)
\* _saha_ratio, a positive real, as a quotient <<a, b>> of whole numbers that
\* grows with the temperature and falls with the ionization energy and the
\* electron density
SahaRatio(ion_energy, temp, electron_density) ==
    <<temp \div 3200, ion_energy \div 2 + electron_density \div 100>>

RECURSIVE ProdSeq(_)
ProdSeq(s) == IF Len(s) = 0 THEN 1 ELSE s[1] * ProdSeq(Tail(s))

RECURSIVE Gcd(_, _)
Gcd(a, b) == IF b = 0 THEN a ELSE Gcd(b, a % b)

Reduce(q) == LET g == Gcd(q[1], q[2]) IN IF g = 0 THEN q ELSE <<q[1] \div g, q[2] \div g>>

\* a variant of the selection: one element without an ionization energy
\* empties it
IncludedElementsStrict(selected_base_elements, ionization_energies) ==
    IF \E j \in 1..Len(selected_base_elements) :
          ionization_energies[selected_base_elements[j]] = 0
    THEN <<>>
    ELSE selected_base_elements

\* the base elements the loop of lines 324-337 does not skip
IncludedElements(selected_base_elements, ionization_energies) ==
    SelectSeq(selected_base_elements, LAMBDA e : ionization_energies[e] # 0)

\* a variant of the composition: the percentages are not renormalised
AtomPercentagesUnscaled(included, ionization_energies, temp, electron_density, tot) ==
    LET saha     == [j \in 1..Len(included) |->
                        SahaRatio(ionization_energies[included[j]], temp, electron_density)]
        whole    == [j \in 1..Len(included) |-> saha[j][1] + saha[j][2]]
        others(j) == ProdSeq([i \in 1..Len(included) |-> IF i = j THEN 1 ELSE whole[i]])
        pos(e)   == CHOOSE j \in 1..Len(included) : included[j] = e
        total    == SumSeq([j \in 1..Len(included) |-> tot[included[j]]])
    IN  [num   |-> [s \in {<<e, i>> : e \in Range(included), i \in {1, 2}} |->
                        tot[s[1]] * others(pos(s[1]))
                            * (IF s[2] = 1 THEN saha[pos(s[1])][2] ELSE saha[pos(s[1])][1])],
         den   |-> 100 * ProdSeq(whole),
         total |-> total]

\* atom_percentages_dict after lines 324-342, every value over the common
\* denominator den: [num |-> species -> numerator, den |-> denominator];
\* total is total_target_percentage
AtomPercentages(included, ionization_energies, temp, electron_density, tot) ==
    LET saha     == [j \in 1..Len(included) |->
                        SahaRatio(ionization_energies[included[j]], temp, electron_density)]
        whole    == [j \in 1..Len(included) |-> saha[j][1] + saha[j][2]]
        others(j) == ProdSeq([i \in 1..Len(included) |-> IF i = j THEN 1 ELSE whole[i]])
        pos(e)   == CHOOSE j \in 1..Len(included) : included[j] = e
        total    == SumSeq([j \in 1..Len(included) |-> tot[included[j]]])
    IN  [num   |-> [s \in {<<e, i>> : e \in Range(included), i \in {1, 2}} |->
                        tot[s[1]] * others(pos(s[1]))
                            * (IF s[2] = 1 THEN saha[pos(s[1])][2] ELSE saha[pos(s[1])][1])],
         den   |-> total * ProdSeq(whole),
         total |-> total]

\* the kernel of _convolve_spectrum: int(6 * sigma_points) | 1 points, the
\* normalised Gaussian window in whole numbers (its sum is the denominator)
KernelSize(cfg) ==
    LET step == (cfg.wl_range[2] - cfg.wl_range[1]) \div (cfg.resolution - 1)
        n    == (6 * cfg.convolution_sigma) \div step
    IN  IF n % 2 = 0 THEN n + 1 ELSE n

Kernel(cfg) ==
    LET kernel_size == KernelSize(cfg)
        centre      == kernel_size \div 2 + 1
    IN  [j \in 1..kernel_size |->
            LET d == IF j > centre THEN j - centre ELSE centre - j
            IN  IF d = 0 THEN 4 ELSE IF d = 1 THEN 1 ELSE 0]

\* F.conv1d(spectrum, kernel, padding = kernel_size // 2), numerators over
\* the sum of the kernel
ConvolveSpectrum(spectrum, cfg) ==
    LET kernel == Kernel(cfg)
        half   == Len(kernel) \div 2
        n      == Len(spectrum)
    IN  [k \in 1..n |->
            SumSeq([j \in 1..Len(kernel) |->
                       LET src == k + j - 1 - half
                       IN  IF src >= 1 /\ src <= n
                           THEN kernel[j] * spectrum[src] ELSE 0])]

\* _normalize_intensity(intensity, 0.8): each value a reduced quotient
NormalizeIntensity(intensity) ==
    LET max_intensity == MaxSeq(intensity)
    IN  IF max_intensity = 0 THEN [k \in 1..Len(intensity) |-> <<0, 1>>]
        ELSE [k \in 1..Len(intensity) |-> Reduce(<<4 * intensity[k], 5 * max_intensity>>)]

\* np.argmax: the first position of the largest value
ArgMax(values) ==
    CHOOSE j \in 1..Len(values) :
        /\ \A i \in 1..Len(values) : values[i] <= values[j]
        /\ \A i \in 1..(j - 1) : values[i] < values[j]

IndexIn(seq, x) == CHOOSE j \in 1..Len(seq) : seq[j] = x

\* a variant of the labelling: a sum equal to the threshold is background
LabelAtStrict(k, element_contributions, selected_simulators, den) ==
    LET contributions_at_point ==
            [j \in 1..Len(element_contributions) |-> element_contributions[j][k]]
        total_intensity == SumSeq(contributions_at_point)
    IN  IF 100 * total_intensity > den
        THEN LET sim == selected_simulators[ArgMax(contributions_at_point)]
             IN  IndexIn(REQUIRED_ELEMENTS, <<sim.element, sim.ion>>)
        ELSE 0

\* lines 378-390: the label of grid position k; contributions are numerators
\* over den and the threshold is 0.01
LabelAt(k, element_contributions, selected_simulators, den) ==
    LET contributions_at_point ==
            [j \in 1..Len(element_contributions) |-> element_contributions[j][k]]
        total_intensity == SumSeq(contributions_at_point)
    IN  IF 100 * total_intensity >= den
        THEN LET sim == selected_simulators[ArgMax(contributions_at_point)]
             IN  IndexIn(REQUIRED_ELEMENTS, <<sim.element, sim.ion>>)
        ELSE 0

NoneResult == <<None, None, None, None>>

\* lines 352-369: the selected simulators and their contribution arrays,
\* numerators over den
SelectedContributions(simulators, cfg, ionization_energies, current_T, current_n_e, draw) ==
    LET included == IncludedElements(draw.sel, ionization_energies)
        ap == AtomPercentages(included, ionization_energies, current_T, current_n_e, draw.tot)
        selected_simulators ==
            SelectSeq(simulators, LAMBDA sim : <<sim.element, sim.ion>> \in DOMAIN ap.num)
    IN  [selected_simulators |-> selected_simulators,
         element_contributions |->
            [j \in 1..Len(selected_simulators) |->
                LET spectrum == Simulate(selected_simulators[j],
                                         ap.num[<<selected_simulators[j].element,
                                                  selected_simulators[j].ion>>], cfg)
                IN  IF Len(spectrum) = 0 THEN [k \in 1..cfg.resolution |-> 0] ELSE spectrum],
         den |-> ap.den]

\* lines 377 and 382-390: contributions_array, resolution rows of
\* len(REQUIRED_ELEMENTS) columns
ContributionsArray(labels, normalized_spectrum) ==
    [k \in 1..Len(labels) |->
        [c \in 1..Len(REQUIRED_ELEMENTS) |->
            IF labels[k] = c THEN normalized_spectrum[k] ELSE <<0, 1>>]]

\* generate_sample.  draw is what the random generator decides: sel, the
\* base elements np.random.choice selects, and tot, the total percentage
\* np.random.uniform(5, 20) gives each.
GenerateSample(simulators, cfg, delta_E_max, ionization_energies, current_T, current_n_e, draw) ==
    LET selected_base_elements == draw.sel
        delta_E_values ==
            {delta_E_max[s] : s \in {<<e, i>> : e \in Range(selected_base_elements),
                                                 i \in {1, 2}}} \ {0}
        delta_E == IF delta_E_values = {} THEN 4
                   ELSE CHOOSE v \in delta_E_values : \A w \in delta_E_values : w <= v
        included == IncludedElements(selected_base_elements, ionization_energies)
        ap == AtomPercentages(included, ionization_energies, current_T, current_n_e, draw.tot)
        selected_simulators ==
            SelectSeq(simulators, LAMBDA sim : <<sim.element, sim.ion>> \in DOMAIN ap.num)
        element_contributions ==
            [j \in 1..Len(selected_simulators) |->
                LET spectrum == Simulate(selected_simulators[j],
                                         ap.num[<<selected_simulators[j].element,
                                                  selected_simulators[j].ion>>], cfg)
                IN  IF Len(spectrum) = 0 THEN [k \in 1..cfg.resolution |-> 0] ELSE spectrum]
        mixed_spectrum == SumArrays(element_contributions, cfg.resolution)
    IN  IF ap.total = 0 THEN NoneResult
        ELSE IF Len(selected_simulators) = 0 THEN NoneResult
        ELSE IF MaxSeq(mixed_spectrum) = 0 THEN NoneResult
        ELSE <<Some(Wavelengths(cfg)),
               Some(NormalizeIntensity(ConvolveSpectrum(mixed_spectrum, cfg))),
               Some([k \in 1..cfg.resolution |->
                        LabelAt(k, element_contributions, selected_simulators, ap.den)]),
               Some([elements         |-> [s \in DOMAIN ap.num |->
                                              Reduce(<<100 * ap.num[s], ap.den>>)],
                     temperature      |-> current_T,
                     electron_density |-> current_n_e,
                     delta_E_max      |-> delta_E])>>

(***************************************************************************)
(* Reference data: the ionization energies (0 where the table has none)    *)
(* and the simulators main() builds, one per species with transitions.     *)
(***************************************************************************)
Sim(element, ion, nist_data) == [element |-> element, ion |-> ion, nist_data |-> nist_data]

Line(wl, intensity) == [wl |-> wl, intensity |-> intensity]

EnergyConfigs ==
    {[e \in Range(BASE_ELEMENTS) |-> IF e = "Al" THEN 6 ELSE 8],
     [e \in Range(BASE_ELEMENTS) |-> IF e = "Fe" THEN 0 ELSE IF e = "Al" THEN 6 ELSE 8],
     [e \in Range(BASE_ELEMENTS) |-> IF e = "Si" THEN 34 ELSE IF e = "Al" THEN 6 ELSE 0],
     [e \in Range(BASE_ELEMENTS) |-> 0]}

\* transitions in the lower half of the grid for five species
FullData ==
    <<Sim("Si", 1, <<Line(220, 3)>>),
      Sim("Si", 2, <<Line(230, 1)>>),
      Sim("Al", 1, <<Line(240, 2)>>),
      Sim("Al", 2, <<Line(210, 1), Line(225, 1)>>),
      Sim("Fe", 1, <<Line(220, 2)>>)>>

\* transitions for the iron species alone
OnlyFeData == <<Sim("Fe", 1, <<Line(220, 2)>>), Sim("Fe", 2, <<Line(230, 1)>>)>>

\* every transition in the last bins of the grid
UpperData ==
    <<Sim("Si", 1, <<Line(270, 3)>>), Sim("Al", 1, <<Line(265, 2)>>),
      Sim("Fe", 2, <<Line(270, 1)>>)>>

\* one transition of one species
OnlyIonData == <<Sim("Si", 2, <<Line(230, 1)>>)>>

DataConfigs == {FullData, OnlyFeData, UpperData, OnlyIonData}

\* delta_E_max as main() collects it: positive for a species with transitions
DeltaEOf(simulators) ==
    [s \in Range(REQUIRED_ELEMENTS) |->
        IF \E j \in 1..Len(simulators) : <<simulators[j].element, simulators[j].ion>> = s
        THEN IF s[2] = 1 THEN 5 ELSE 3
        ELSE 0]

\* np.random.uniform(5, 20)
TotalChoices == {5, 20}

\* every outcome of the random generator inside generate_sample
AllDraws ==
    UNION {{[sel |-> sel, tot |-> t] : t \in [Range(sel) -> TotalChoices]} :
              sel \in InjSeqs(Range(BASE_ELEMENTS), NumTargetElements)}

(***************************************************************************)
(* Double-precision arithmetic of "int(0.7 * n)" and "int(0.15 * n)".      *)
(* A natural number is a sequence of bits, least significant first.  A     *)
(* double constant is its 53-bit significand m and the s with value        *)
(* m * 2^-s.                                                               *)
(***************************************************************************)
\* 0.7 is 0x3FE6666666666666: significand 0x16666666666666, times 2^-53
Double07 ==
    [bits |-> [j \in 1..53 |-> IF j = 53 \/ j % 4 \in {2, 3} THEN 1 ELSE 0],
     exp  |-> 53]

\* 0.15 is 0x3FC3333333333333: significand 0x13333333333333, times 2^-55
Double015 ==
    [bits |-> [j \in 1..53 |-> IF j = 53 \/ j % 4 \in {1, 2} THEN 1 ELSE 0],
     exp  |-> 55]

RECURSIVE AddBits(_, _, _)
AddBits(a, b, carry) ==
    IF Len(a) = 0 /\ Len(b) = 0
    THEN IF carry = 1 THEN <<1>> ELSE <<>>
    ELSE LET x == IF Len(a) > 0 THEN a[1] ELSE 0
             y == IF Len(b) > 0 THEN b[1] ELSE 0
             s == x + y + carry
         IN  <<s % 2>> \o AddBits(IF Len(a) > 0 THEN Tail(a) ELSE a,
                                  IF Len(b) > 0 THEN Tail(b) ELSE b, s \div 2)

\* the exact product of the bit sequence a and the natural number n
RECURSIVE MulBits(_, _)
MulBits(a, n) ==
    IF n = 0 THEN <<>>
    ELSE LET rest == MulBits(<<0>> \o a, n \div 2)
         IN  IF n % 2 = 1 THEN AddBits(a, rest, 0) ELSE rest

RECURSIVE BitsToInt(_)
BitsToInt(a) == IF Len(a) = 0 THEN 0 ELSE a[1] + 2 * BitsToInt(Tail(a))

\* round to nearest, ties to even, at 53 significant bits
RoundToDouble(x) ==
    LET sh == Len(x) - 53
    IN  IF sh <= 0 THEN x
        ELSE LET kept   == SubSeq(x, sh + 1, Len(x))
                 half   == x[sh]
                 sticky == \E j \in 1..(sh - 1) : x[j] = 1
                 up     == half = 1 /\ (sticky \/ kept[1] = 1)
             IN  [j \in 1..sh |-> 0] \o (IF up THEN AddBits(kept, <<1>>, 0) ELSE kept)

\* int(c * n) for the double constant c and the integer n >= 0
IntOfProduct(c, n) ==
    LET p == RoundToDouble(MulBits(c.bits, n))
    IN  IF Len(p) <= c.exp THEN 0 ELSE BitsToInt(SubSeq(p, c.exp + 1, Len(p)))

(***************************************************************************)
(* generate_dataset, the 70/15/15 partition (lines 576-583).  indices is   *)
(* np.random.permutation(n), here a permutation of 1..n.                   *)
(***************************************************************************)
\* a variant of the partition: the validation slice starts one position early
SplitIndicesOverlap(n, indices) ==
    LET num_train == IntOfProduct(Double07, n)
        num_val   == IntOfProduct(Double015, n)
    IN  [train      |-> SubSeq(indices, 1, num_train),
         validation |-> SubSeq(indices, Max(num_train, 1), num_train + num_val),
         test       |-> SubSeq(indices, num_train + num_val + 1, n)]

SplitIndices(n, indices) ==
    LET num_train == IntOfProduct(Double07, n)
        num_val   == IntOfProduct(Double015, n)
    IN  [train      |-> SubSeq(indices, 1, num_train),
         validation |-> SubSeq(indices, num_train + 1, num_train + num_val),
         test       |-> SubSeq(indices, num_train + num_val + 1, n)]

\* the permutations of 1..n the model draws: all of them for a small n, three
\* of them for a large one
PermChoices(n) ==
    IF n <= MaxFullPerm THEN InjSeqs(1..n, n)
    ELSE {[j \in 1..n |-> j], [j \in 1..n |-> n + 1 - j], [j \in 1..n |-> (j % n) + 1]}

(***************************************************************************)
(* DatasetGenerator: the combination hash and the combination log.         *)
(***************************************************************************)
\* the digits of num/den after the decimal point, as a whole number
RECURSIVE FracDigits(_, _, _, _)
FracDigits(r, den, digits, acc) ==
    IF digits = 0 THEN <<acc, r>>
    ELSE FracDigits((10 * r) % den, den, digits - 1, 10 * acc + (10 * r) \div den)

\* round(v, 6) of the quotient v, in units of 1e-6
Round6(v) ==
    LET f == FracDigits(v[1] % v[2], v[2], 6, 0)
    IN  (v[1] \div v[2]) * 1000000 + f[1] + (IF 2 * f[2] >= v[2] THEN 1 ELSE 0)

\* f"{n_e:.2e}": three significant digits of the density
RECURSIVE Format2e(_)
Format2e(n_e) == IF n_e < 1000 THEN n_e ELSE 10 * Format2e((n_e + 5) \div 10)

\* _hash_combination: SHA-256 of the string built from temp (two decimals,
\* exact for a whole temperature), n_e (three significant digits) and the
\* species percentages rounded to six decimals, in the order of the species.
\* Two strings are hashed to one value only if they are equal.
HashCombination(temp, n_e, atom_percentages) ==
    [temp     |-> temp,
     n_e      |-> Format2e(n_e),
     elements |-> [s \in DOMAIN atom_percentages.elements |->
                      Round6(atom_percentages.elements[s])]]

\* the hashes _load_used_combinations reads from the log
LoadUsedCombinations(log) ==
    IF log = None THEN {} ELSE {log[1][j].hash : j \in 1..Len(log[1])}

\* _save_combination on the files [dir_exists, log, dataset, backups]: the
\* log is read, extended and rewritten; open(path, 'w') raises when the
\* directory does not exist, and the exception is logged and dropped
SaveCombination(files, combination) ==
    IF ~files.dir_exists THEN files
    ELSE [files EXCEPT !.log = IF @ = None THEN Some(<<combination>>)
                                ELSE Some(Append(@[1], combination))]

\* _save_combination with the outcomes of the file system.  A log file is
\* [data |-> the records, valid |-> the text is the JSON of data]; outcome is
\* what the read, the open for writing and the dump meet: kind "ok",
\* "read_error", "open_error" or "write_error", and for a dump that fails the
\* number of records that reached the file after open(path, 'w') emptied it.
SaveCombinationIO(file, combination, outcome) ==
    LET data == IF file = None THEN <<>> ELSE file[1].data
    IN  IF file # None /\ (outcome.kind = "read_error" \/ ~file[1].valid) THEN file
        ELSE IF outcome.kind = "open_error" THEN file
        ELSE IF outcome.kind = "write_error"
             THEN Some([data  |-> SubSeq(data, 1, Min(outcome.written, Len(data))),
                        valid |-> FALSE])
             ELSE Some([data |-> Append(data, combination), valid |-> TRUE])

\* json.dumps(d).encode('utf-8')
JsonDumps(d) == [json |-> d]

(***************************************************************************)
(* The driver's reference data and inputs.                                 *)
(***************************************************************************)
\* max_attempts
MaxAttempts == 5

SplitNames == <<"train", "validation", "test">>

\* the data of the driver's runs: silicon has transitions and an ionization
\* energy, aluminium an ionization energy and no transition, iron has a
\* transition and no ionization energy
DriverSimulators ==
    <<Sim("Si", 1, <<Line(220, 3)>>), Sim("Si", 2, <<Line(230, 1)>>),
      Sim("Fe", 1, <<Line(220, 2)>>)>>

DriverEnergies ==
    [e \in Range(BASE_ELEMENTS) |-> IF e = "Fe" THEN 0 ELSE IF e = "Al" THEN 6 ELSE 8]

\* the total counts the driver is configured with; the count, with the seed,
\* fixes the draws of a run, and is the same in every run on a directory
DriverNumSamples == {3, 5}

\* the wavelength ranges a run may be configured with
GridChoices == {<<200, 270>>, <<200, 340>>}

\* what the random generator may decide in one generate_sample call of the
\* driver's runs: the selections in the order of BASE_ELEMENTS, 5 percent
\* each, or 20 percent of silicon beside aluminium
DriverDraws ==
    {d \in AllDraws :
        /\ \A j \in 1..(Len(d.sel) - 1) :
              IndexIn(BASE_ELEMENTS, d.sel[j]) < IndexIn(BASE_ELEMENTS, d.sel[j + 1])
        /\ \A e \in Range(d.sel) :
              d.tot[e] # 5 => (e = "Si" /\ "Al" \in Range(d.sel))}

\* the permutations of 1..n the driver's runs draw
DriverPerms(n) == {[j \in 1..n |-> j], [j \in 1..n |-> n + 1 - j]}

EmptyGroup == [spectra |-> <<>>, labels |-> <<>>, atom_percentages |-> <<>>]

\* a new HDF5 file
EmptyFile == [wavelengths |-> None, groups |-> <<>>, attrs |-> <<>>]

\* f with f[key] = value
With(f, key, value) == [n \in DOMAIN f \cup {key} |-> IF n = key THEN value ELSE f[n]]

\* array[idx] for a list of positions
Take(array, idx) == [j \in 1..Len(idx) |-> array[idx[j]]]

(***************************************************************************)
(* State.                                                                  *)
(***************************************************************************)
VARIABLES
    sched,  \* the scheduler under test: its configuration and what it returned
    part,   \* the partitioning under test: the count, the permutation, the split
    mix,    \* generate_sample under test: the reference data, the draw, the result
    ssim,   \* a SpectrumSimulator under test: its data, its profile cache
    clog,   \* _save_combination under test: the log file before and after
    fs,     \* the output directory: dir_exists, log, dataset, backups
    gen,    \* generate_dataset: its position and its local variables
    rng,    \* the seeded random generator: the draws it makes, the position
    hist    \* history of the runs: the files at the start of the run, counters

vars == <<sched, part, mix, ssim, clog, fs, gen, rng, hist>>

harness == <<sched, part, mix, ssim, clog>>

driver == <<fs, gen, rng, hist>>

(***************************************************************************)
(* The scheduler on its own: any configuration, any outcome of the random  *)
(* generator.                                                              *)
(***************************************************************************)
SchedConfigs ==
    {[num_samples |-> n,
      temperature_range |-> SubSeq(ModelTemperatures, 1, k),
      electron_density_range |-> d] :
        n \in 0..MaxSchedSamples, k \in 1..MaxTemps, d \in DensityConfigs}

\* one temperature and six density candidates, so that more candidates
\* qualify than a temperature may use; quotas below, at and above the five
\* densities a temperature may use
WideConfigs ==
    {[num_samples |-> n,
      temperature_range |-> SubSeq(ModelTemperatures, 1, 1),
      electron_density_range |-> <<50, 100, 150, 200, 250, 300>>] :
        n \in {4, 5, 6}}

SchedIdle == [pc |-> "unused", cfg |-> None, delta_E_max |-> None, ch |-> None, result |-> <<>>]

MixIdle ==
    [pc |-> "unused", simulators |-> <<>>, ionization_energies |-> None,
     current_T |-> 0, current_n_e |-> 0, draw |-> None, result |-> None]

PartIdle == [pc |-> "unused", n |-> 0, indices |-> <<>>, result |-> None]

FsIdle == [dir_exists |-> FALSE, log |-> None, dataset |-> None, backups |-> <<>>]

GenIdle ==
    [pc |-> "idle", error |-> None, config |-> None, used_combinations |-> {},
     sample_params |-> <<>>, i |-> 0, attempt |-> 0, sample_generated |-> FALSE,
     spectra_list |-> <<>>, labels_list |-> <<>>, wavelengths_list |-> <<>>,
     atom_percentages_list |-> <<>>, new_data |-> None, existing_data |-> None,
     combined_data |-> None, created |-> 0, num_samples |-> 0]

RngIdle == [stream |-> <<>>, pos |-> 0]

HistIdle ==
    [run |-> 0, fs_at_start |-> FsIdle,
     calls |-> 0, slot_accepted |-> 0, slot_rejected |-> 0, accepted |-> <<>>,
     first |-> <<>>, configs |-> <<>>, persisted |-> <<>>]

DriverUnused == fs = FsIdle /\ gen = GenIdle /\ rng = RngIdle /\ hist = HistIdle

SimIdle ==
    [pc |-> "unused", cfg |-> None, nist_data |-> <<>>, gaussian_cache |-> <<>>,
     calls |-> 0, computed |-> 0, center |-> None, returned |-> None, first |-> <<>>,
     spectrum |-> None]

LogIdle == [pc |-> "unused", file |-> None, before |-> None, calls |-> 0, outcome |-> "none"]

HarnessUnused ==
    sched = SchedIdle /\ part = PartIdle /\ mix = MixIdle /\ ssim = SimIdle /\ clog = LogIdle

InitSched ==
    /\ \E cfg \in SchedConfigs \cup WideConfigs, dE \in DeltaEDicts :
          sched = [pc |-> "ready", cfg |-> cfg, delta_E_max |-> dE, ch |-> None, result |-> None]
    /\ part = PartIdle
    /\ mix = MixIdle
    /\ ssim = SimIdle
    /\ clog = LogIdle
    /\ DriverUnused

CallGenerateSampleParams ==
    /\ sched.pc = "ready"
    /\ \E ch \in SchedChoices(sched.cfg, sched.delta_E_max) :
          sched' = [sched EXCEPT !.pc = "returned", !.ch = Some(ch),
                       !.result = GenerateSampleParams(sched.cfg, sched.delta_E_max, ch)]
    /\ UNCHANGED <<part, mix, ssim, clog, driver>>

NextSched == CallGenerateSampleParams

SpecSched == InitSched /\ [][NextSched]_vars

(***************************************************************************)
(* The partitioning on its own: any count, a permutation.                  *)
(***************************************************************************)
InitSplit ==
    /\ \E n \in 0..MaxSplitSamples : \E p \in PermChoices(n) :
          part = [pc |-> "ready", n |-> n, indices |-> p, result |-> None]
    /\ sched = SchedIdle
    /\ mix = MixIdle
    /\ ssim = SimIdle
    /\ clog = LogIdle
    /\ DriverUnused

CallSplit ==
    /\ part.pc = "ready"
    /\ part' = [part EXCEPT !.pc = "returned",
                   !.result = SplitIndices(part.n, part.indices)]
    /\ UNCHANGED <<sched, mix, ssim, clog, driver>>

NextSplit == CallSplit

SpecSplit == InitSplit /\ [][NextSplit]_vars

(***************************************************************************)
(* generate_sample on its own: any reference data, any (T, n_e), any draw. *)
(***************************************************************************)
SampleConfig == Config(5, <<200, 270>>)

InitSample ==
    /\ \E sims \in DataConfigs, en \in EnergyConfigs, d \in AllDraws,
          T \in {3600, 6400, 10000}, n_e \in {100, 200} :
          mix = [pc |-> "ready", simulators |-> sims, ionization_energies |-> en,
                 current_T |-> T, current_n_e |-> n_e, draw |-> d, result |-> None]
    /\ sched = SchedIdle
    /\ part = PartIdle
    /\ ssim = SimIdle
    /\ clog = LogIdle
    /\ DriverUnused

CallGenerateSample ==
    /\ mix.pc = "ready"
    /\ mix' = [mix EXCEPT !.pc = "returned",
                  !.result = GenerateSample(mix.simulators, SampleConfig,
                                            DeltaEOf(mix.simulators), mix.ionization_energies,
                                            mix.current_T, mix.current_n_e, mix.draw)]
    /\ UNCHANGED <<sched, part, ssim, clog, driver>>

NextSample == CallGenerateSample

SpecSample == InitSample /\ [][NextSample]_vars

(***************************************************************************)
(* One SpectrumSimulator on its own: any transitions, calls of             *)
(* _gaussian_profile and of simulate in any order.                         *)
(***************************************************************************)
\* wavelengths of transitions: below, on, between and above the grid points
SimWavelengths == {195, 200, 215, 230, 240, 255, 270, 280}

SimLines == {Line(w, 2) : w \in SimWavelengths}

SimData == {<<l>> : l \in SimLines} \cup {<<Line(215, 2), Line(230, 1)>>, <<>>}

InitSim ==
    /\ \E data \in SimData, wl_range \in GridChoices :
          ssim = [SimIdle EXCEPT !.pc = "ready", !.cfg = Some(Config(1, wl_range)),
                                 !.nist_data = data]
    /\ sched = SchedIdle
    /\ part = PartIdle
    /\ mix = MixIdle
    /\ clog = LogIdle
    /\ DriverUnused

\* _gaussian_profile(center), lines 167-175
CallGaussianProfile ==
    /\ ssim.pc = "ready"
    /\ ssim.calls < MaxSimCalls
    /\ \E center \in SimWavelengths :
       \E cache \in {GaussianCache(ssim.gaussian_cache, center, ssim.cfg[1])} :
          ssim' = [ssim EXCEPT
                      !.gaussian_cache = cache,
                      !.calls = @ + 1,
                      !.computed = IF center \in DOMAIN ssim.gaussian_cache THEN @ ELSE @ + 1,
                      !.center = Some(center),
                      !.returned = Some(cache[center]),
                      !.first = IF center \in DOMAIN @ THEN @ ELSE With(@, center, cache[center])]
    /\ UNCHANGED <<sched, part, mix, clog, driver>>

\* simulate(1.0), lines 177-251
CallSimulate ==
    /\ ssim.pc = "ready"
    /\ ssim.calls < MaxSimCalls
    /\ \E cache \in {CacheAfterSimulate(ssim.gaussian_cache, ssim.nist_data, ssim.cfg[1])} :
          ssim' = [ssim EXCEPT
                      !.gaussian_cache = cache,
                      !.calls = @ + 1,
                      !.computed = @ + Cardinality(DOMAIN cache \ DOMAIN ssim.gaussian_cache),
                      !.spectrum = Some(Simulate([element |-> "Si", ion |-> 1,
                                                  nist_data |-> ssim.nist_data],
                                                 1, ssim.cfg[1]))]
    /\ UNCHANGED <<sched, part, mix, clog, driver>>

NextSim == CallGaussianProfile \/ CallSimulate

SpecSim == InitSim /\ [][NextSim]_vars

(***************************************************************************)
(* generate_dataset, run up to MaxRuns times on one output directory.      *)

(***************************************************************************)
(* _save_combination on its own: calls with any outcome of the file        *)
(* system.                                                                 *)
(***************************************************************************)
LogCombinations == {[sample_id |-> 1, hash |-> h] : h \in {"h1", "h2", "h3"}}

LogOutcomes ==
    {[kind |-> k, written |-> 0] : k \in {"ok", "read_error", "open_error"}}
        \cup {[kind |-> "write_error", written |-> w] : w \in 0..MaxLogCalls}

InitLog ==
    /\ \E file \in {None, Some([data |-> <<>>, valid |-> TRUE])} :
          clog = [LogIdle EXCEPT !.pc = "ready", !.file = file]
    /\ sched = SchedIdle
    /\ part = PartIdle
    /\ mix = MixIdle
    /\ ssim = SimIdle
    /\ DriverUnused

\* lines 433-445
CallSaveCombination ==
    /\ clog.pc = "ready"
    /\ clog.calls < MaxLogCalls
    /\ \E combination \in LogCombinations, outcome \in LogOutcomes :
          clog' = [clog EXCEPT
                      !.file = SaveCombinationIO(clog.file, combination, outcome),
                      !.before = clog.file,
                      !.calls = @ + 1,
                      !.outcome = outcome.kind]
    /\ UNCHANGED <<sched, part, mix, ssim, driver>>

NextLog == CallSaveCombination

SpecLog == InitLog /\ [][NextLog]_vars

(***************************************************************************)
\* the draws the generator can make at a position of its stream: what it
\* made there in an earlier run with the same seed, any draw where the
\* stream is new, and a repetition of the stream after MaxCalls draws
DrawsAt(stream, pos) ==
    IF pos < Len(stream) THEN {stream[pos + 1]}
    ELSE IF Len(stream) < MaxCalls THEN DriverDraws
    ELSE {stream[(pos % MaxCalls) + 1]}

Drawn(stream, pos, d) ==
    IF pos = Len(stream) /\ Len(stream) < MaxCalls THEN Append(stream, d) ELSE stream

\* a variant of the seeding: the generator goes on where it was
SeedSkipped(r) == r

\* np.random.seed(42): the generator is back at the start of its stream
Seed(r) == [r EXCEPT !.pos = 0]

Raise(g, message) == [g EXCEPT !.pc = "raised", !.error = Some(message)]

Init ==
    /\ HarnessUnused
    /\ \E d \in BOOLEAN : fs = [FsIdle EXCEPT !.dir_exists = d]
    /\ \E n \in DriverNumSamples : gen = [GenIdle EXCEPT !.num_samples = n]
    /\ rng = RngIdle
    /\ hist = HistIdle

\* lines 505-524: the seed, the log, the schedule, the first slot
StartRun ==
    /\ gen.pc \in {"idle", "done", "raised"}
    /\ hist.run < MaxRuns
    /\ \E wl_range \in GridChoices :
          LET cfg == Config(gen.num_samples, wl_range)
              dE  == DeltaEOf(DriverSimulators)
          IN  \E ch \in SchedChoices(cfg, dE) :
                 LET sample_params == GenerateSampleParams(cfg, dE, ch)
                 IN  /\ gen' = [GenIdle EXCEPT
                                  !.pc = IF Len(sample_params) = 0 THEN "check" ELSE "attempt",
                                  !.config = Some(cfg),
                                  !.used_combinations = LoadUsedCombinations(fs.log),
                                  !.sample_params = sample_params,
                                  !.i = 1,
                                  !.num_samples = gen.num_samples]
                     /\ hist' = [hist EXCEPT
                                  !.run = @ + 1,
                                  !.fs_at_start = fs,
                                  !.calls = 0, !.slot_accepted = 0, !.slot_rejected = 0,
                                  !.accepted = Append(@, {}),
                                  !.first = Append(@, None),
                                  !.configs = Append(@, cfg),
                                  !.persisted =
                                      Append(@, (UNION Range(hist.accepted))
                                                    \subseteq LoadUsedCombinations(fs.log))]
    /\ rng' = Seed(rng)
    /\ UNCHANGED <<fs, harness>>

\* a variant of the retry: a rejected candidate costs nothing
RejectedFree(g) == g

\* lines 528-530 and 534-537: a failed or duplicate candidate costs an attempt
Rejected(g) == [g EXCEPT !.attempt = @ + 1]

\* lines 526-555: one iteration of the retry loop
Attempt ==
    /\ gen.pc = "attempt"
    /\ gen.attempt < MaxAttempts /\ ~gen.sample_generated
    /\ LET cfg    == gen.config[1]
           stream == rng.stream
           T      == gen.sample_params[gen.i][1]
           n_e    == gen.sample_params[gen.i][2]
       IN  \E d \in DrawsAt(stream, rng.pos) :
           \E result \in {GenerateSample(DriverSimulators, cfg, DeltaEOf(DriverSimulators),
                                         DriverEnergies, T, n_e, d)} :
           \E combination_hash \in
                  {IF result[1] = None THEN None
                   ELSE Some(HashCombination(T, n_e, result[4][1]))} :
             LET atom_percentages == result[4][1]
                 combination ==
                     [sample_id        |-> Cardinality(gen.used_combinations) + 1,
                      hash             |-> combination_hash[1],
                      temperature      |-> T,
                      electron_density |-> n_e,
                      elements         |-> atom_percentages.elements,
                      delta_E_max      |-> atom_percentages.delta_E_max]
                 accepted == result[1] # None /\ combination_hash[1] \notin gen.used_combinations
             IN  /\ rng' = [stream |-> Drawn(stream, rng.pos, d), pos |-> rng.pos + 1]
                 /\ IF accepted
                    THEN /\ gen' = [gen EXCEPT
                                !.spectra_list = Append(@, result[2][1]),
                                !.labels_list = Append(@, result[3][1]),
                                !.wavelengths_list = Append(@, result[1][1]),
                                !.atom_percentages_list = Append(@, atom_percentages),
                                !.used_combinations = @ \cup {combination_hash[1]},
                                !.sample_generated = TRUE]
                         /\ fs' = SaveCombination(fs, combination)
                    ELSE /\ gen' = Rejected(gen)
                         /\ fs' = fs
                 /\ hist' = [hist EXCEPT
                        !.calls = @ + 1,
                        !.slot_accepted = IF accepted THEN @ + 1 ELSE @,
                        !.slot_rejected = IF accepted THEN @ ELSE @ + 1,
                        !.accepted[hist.run] = IF accepted THEN @ \cup {combination_hash[1]} ELSE @,
                        !.first[hist.run] = IF gen.i = 1 /\ hist.calls = 0
                                            THEN Some(combination_hash) ELSE @]
    /\ UNCHANGED harness

\* lines 526, 557-558: the retry loop is left; a slot without a sample is
\* warned about
EndSlot ==
    /\ gen.pc = "attempt"
    /\ ~(gen.attempt < MaxAttempts /\ ~gen.sample_generated)
    /\ gen' = [gen EXCEPT !.pc = "progress"]
    /\ UNCHANGED <<fs, rng, hist, harness>>

\* lines 560-565 and 519-524: the progress report, then the next slot
Progress ==
    /\ gen.pc = "progress"
    /\ gen' = IF gen.config[1].num_samples \div 5 = 0
              THEN Raise(gen, "ZeroDivisionError")
              ELSE IF gen.i < Len(gen.sample_params)
              THEN [gen EXCEPT !.pc = "attempt", !.i = @ + 1, !.attempt = 0,
                               !.sample_generated = FALSE]
              ELSE [gen EXCEPT !.pc = "check"]
    /\ hist' = [hist EXCEPT !.calls = 0, !.slot_accepted = 0, !.slot_rejected = 0]
    /\ UNCHANGED <<fs, rng, harness>>

\* a variant of the check: an empty run goes on to write the file
CheckSamplesLenient ==
    /\ gen.pc = "check"
    /\ gen' = [gen EXCEPT !.pc = IF Len(gen.spectra_list) = 0 THEN "open" ELSE "split"]
    /\ UNCHANGED <<fs, rng, hist, harness>>

\* lines 567-569
CheckSamples ==
    /\ gen.pc = "check"
    /\ gen' = IF Len(gen.spectra_list) = 0
              THEN Raise(gen, "Tidak ada sampel valid yang dihasilkan")
              ELSE [gen EXCEPT !.pc = "split"]
    /\ UNCHANGED <<fs, rng, hist, harness>>

\* lines 571-603: the arrays, the partition, the output directory
Split ==
    /\ gen.pc = "split"
    /\ \E indices \in DriverPerms(Len(gen.spectra_list)) :
          LET idx == SplitIndices(Len(gen.spectra_list), indices)
              atom_percentages_array ==
                  [j \in 1..Len(gen.atom_percentages_list) |->
                      JsonDumps(gen.atom_percentages_list[j])]
          IN  gen' = [gen EXCEPT
                  !.pc = "backup",
                  !.new_data = Some([name \in Range(SplitNames) |->
                      [spectra          |-> Take(gen.spectra_list, idx[name]),
                       labels           |-> Take(gen.labels_list, idx[name]),
                       atom_percentages |-> Take(atom_percentages_array, idx[name])]])]
    /\ fs' = [fs EXCEPT !.dir_exists = TRUE]
    /\ UNCHANGED <<rng, hist, harness>>

\* a variant of the backup: no copy is made
BackupSkipped(files) == files

\* lines 605-608: an existing dataset file is copied
BackupFiles(files) ==
    IF files.dataset # None THEN [files EXCEPT !.backups = Append(@, files.dataset[1])]
    ELSE files

Backup ==
    /\ gen.pc = "backup"
    /\ fs' = BackupFiles(fs)
    /\ gen' = [gen EXCEPT !.pc = "read"]
    /\ UNCHANGED <<rng, hist, harness>>

\* a variant of the merge: the new entries replace the existing ones
CombineReplacing(existing, new) == new

\* a variant of the grid check: every stored grid is taken as equal
WavelengthsNeverDiffer(dataset, wavelengths_array) == FALSE

\* lines 615-621: the file exists, stores a grid, and the grid is not the
\* current one
WavelengthsDiffer(dataset, wavelengths_array) ==
    /\ dataset # None
    /\ dataset[1].wavelengths # None
    /\ dataset[1].wavelengths[1] # wavelengths_array

\* lines 633-645: existing followed by new, or new alone
Combine(existing, new) == IF Len(existing) > 0 THEN existing \o new ELSE new

\* lines 610-645: the existing file is read, its grid compared, and the new
\* entries are put behind the existing ones
ReadExisting ==
    /\ gen.pc = "read"
    /\ LET wavelengths_array == gen.wavelengths_list[1]
           mismatch == WavelengthsDiffer(fs.dataset, wavelengths_array)
           existing_data ==
               [name \in Range(SplitNames) |->
                   IF fs.dataset # None /\ name \in DOMAIN fs.dataset[1].groups
                   THEN fs.dataset[1].groups[name]
                   ELSE EmptyGroup]
           new_data == gen.new_data[1]
       IN  gen' = IF mismatch THEN Raise(gen, "Wavelengths tidak cocok")
                  ELSE [gen EXCEPT
                          !.pc = "open",
                          !.existing_data = Some(existing_data),
                          !.combined_data = Some([name \in Range(SplitNames) |->
                              [spectra |-> Combine(existing_data[name].spectra,
                                                   new_data[name].spectra),
                               labels  |-> Combine(existing_data[name].labels,
                                                   new_data[name].labels),
                               atom_percentages |->
                                   Combine(existing_data[name].atom_percentages,
                                           new_data[name].atom_percentages)]])]
    /\ UNCHANGED <<fs, rng, hist, harness>>

\* lines 647-650: the file is opened for appending and its splits are deleted
OpenAppend ==
    /\ gen.pc = "open"
    /\ LET f == IF fs.dataset = None THEN EmptyFile ELSE fs.dataset[1]
       IN  fs' = [fs EXCEPT !.dataset =
                     Some([f EXCEPT !.groups =
                              [name \in DOMAIN f.groups \ Range(SplitNames) |-> f.groups[name]]])]
    /\ gen' = [gen EXCEPT !.pc = "wavelengths"]
    /\ UNCHANGED <<rng, hist, harness>>

\* lines 652-654
WriteWavelengths ==
    /\ gen.pc = "wavelengths"
    /\ fs' = [fs EXCEPT !.dataset[1].wavelengths = Some(gen.wavelengths_list[1])]
    /\ gen' = [gen EXCEPT !.pc = "groups", !.created = 0]
    /\ UNCHANGED <<rng, hist, harness>>

\* lines 657-662: one iteration, the group of one split
CreateGroup ==
    /\ gen.pc = "groups"
    /\ gen.created < Len(SplitNames)
    /\ LET ds_name == SplitNames[gen.created + 1]
       IN  fs' = [fs EXCEPT !.dataset[1].groups =
                     With(@, ds_name, gen.combined_data[1][ds_name])]
    /\ gen' = [gen EXCEPT !.created = @ + 1]
    /\ UNCHANGED <<rng, hist, harness>>

\* lines 664-669: the attributes; the file is closed
WriteAttrs ==
    /\ gen.pc = "groups"
    /\ gen.created = Len(SplitNames)
    /\ LET combined_data == gen.combined_data[1]
       IN  fs' = [fs EXCEPT !.dataset[1].attrs =
                     [lastbud           |-> hist.run,
                      total_samples     |-> SumSeq([j \in 1..Len(SplitNames) |->
                                               Len(combined_data[SplitNames[j]].spectra)]),
                      simulation_config |-> gen.config[1]]]
    /\ gen' = [gen EXCEPT !.pc = "done"]
    /\ UNCHANGED <<rng, hist, harness>>

Next ==
    \/ StartRun
    \/ Attempt
    \/ EndSlot
    \/ Progress
    \/ CheckSamples
    \/ Split
    \/ Backup
    \/ ReadExisting
    \/ OpenAppend
    \/ WriteWavelengths
    \/ CreateGroup
    \/ WriteAttrs

Spec == Init /\ [][Next]_vars

(***************************************************************************)
(* Claims.                                                                 *)
(***************************************************************************)
CountTemp(sample_params, temp) ==
    Cardinality({j \in 1..Len(sample_params) : sample_params[j][1] = temp})

\* C9: _generate_sample_params returns exactly N pairs, every temperature
\* floor(N/k) or floor(N/k)+1 times, the extra one going to the first
\* (N mod k) temperatures of the list.
C9_Quota ==
    sched.pc = "returned" =>
        LET N == sched.cfg.num_samples
            k == Len(sched.cfg.temperature_range)
        IN  /\ Len(sched.result) = N
            /\ \A i \in 1..k :
                  CountTemp(sched.result, sched.cfg.temperature_range[i])
                      = (N \div k) + (IF i <= N % k THEN 1 ELSE 0)

C9_Witness ==
    /\ sched.pc = "returned"
    /\ Len(sched.cfg.temperature_range) = 3
    /\ sched.cfg.num_samples = 5
    /\ CountTemp(sched.result, 6400) = 2
    /\ CountTemp(sched.result, 14400) = 1

SplitSet(name) == Range(part.result[name])

\* C8 as stated: the three index sets partition the N samples, with
\* |train| = floor(0.70 N), |val| = floor(0.15 N), |test| = N - |train| - |val|.
C8_Original ==
    part.pc = "returned" =>
        /\ SplitSet("train") \cup SplitSet("validation") \cup SplitSet("test") = 1..part.n
        /\ Len(part.result.train) + Len(part.result.validation)
               + Len(part.result.test) = part.n
        /\ Len(part.result.train) = (7 * part.n) \div 10
        /\ Len(part.result.validation) = (15 * part.n) \div 100

\* C8 amended: the three index sets partition the N samples; |val| is
\* floor(0.15 N), |test| = N - |train| - |val|, and |train| is the integer
\* part of the double-precision product 0.7 * N: floor(0.70 N) when N < 90 or
\* N is not a multiple of 10, and floor(0.70 N) or one less otherwise.
C8_Partition ==
    part.pc = "returned" =>
        /\ SplitSet("train") \cup SplitSet("validation") \cup SplitSet("test") = 1..part.n
        /\ Len(part.result.train) + Len(part.result.validation)
               + Len(part.result.test) = part.n
        /\ Len(part.result.validation) = (15 * part.n) \div 100
        /\ Len(part.result.train) \in {(7 * part.n) \div 10 - 1, (7 * part.n) \div 10}
        /\ (part.n < 90 \/ part.n % 10 # 0) =>
              Len(part.result.train) = (7 * part.n) \div 10

C8_Witness ==
    /\ part.pc = "returned"
    /\ part.n = 90
    /\ Len(part.result.train) = 62
    /\ Len(part.result.validation) = 13
    /\ Len(part.result.test) = 15

\* the simulator contributes nothing on the grid, whatever its share
Dark(sim, cfg) ==
    LET spectrum == Simulate(sim, 1, cfg)
    IN  \A k \in 1..Len(spectrum) : spectrum[k] = 0

\* the selected elements with an ionization energy, and their simulators
Usable == {e \in Range(mix.draw.sel) : mix.ionization_energies[e] # 0}

Eligible == {j \in 1..Len(mix.simulators) : mix.simulators[j].element \in Usable}

SomeEnergyMissing == \E e \in Range(mix.draw.sel) : mix.ionization_energies[e] = 0

NoSpectrum ==
    \/ Usable = {}
    \/ Eligible = {}
    \/ \A j \in Eligible : Dark(mix.simulators[j], SampleConfig)

\* C10 as stated: generate_sample returns four None when a selected base
\* element has no ionization energy, when the total percentage is zero, when
\* no simulator is eligible, or when the mixture spectrum is all zero, and four
\* values otherwise.
C10_Original ==
    mix.pc = "returned" =>
        /\ (SomeEnergyMissing \/ NoSpectrum) => mix.result = NoneResult
        /\ ~(SomeEnergyMissing \/ NoSpectrum) => \A j \in 1..4 : mix.result[j] # None

\* C10 amended: generate_sample returns either four None or four values; it
\* returns four None exactly when the total percentage is zero (every
\* selected base element lacks an ionization energy), when no simulator is
\* eligible, or when the mixture spectrum is all zero.  A selected element
\* without an ionization energy is left out of the composition and does not
\* by itself make the call fail.
C10_AllOrNothing ==
    mix.pc = "returned" =>
        /\ NoSpectrum => mix.result = NoneResult
        /\ ~NoSpectrum =>
              /\ \A j \in 1..4 : mix.result[j] # None
              /\ {s[1] : s \in DOMAIN mix.result[4][1].elements} = Usable

C10_Witness ==
    /\ mix.pc = "returned"
    /\ SomeEnergyMissing
    /\ ~NoSpectrum
    /\ \A j \in 1..4 : mix.result[j] # None

\* the composition metadata stored in a dataset file, split after split
Stored(dataset) ==
    LET entries(name) == IF name \in DOMAIN dataset[1].groups
                         THEN dataset[1].groups[name].atom_percentages
                         ELSE <<>>
    IN  IF dataset = None THEN <<>>
        ELSE entries("train") \o entries("validation") \o entries("test")

\* the combination hash of a stored sample
HashOf(entry) ==
    HashCombination(entry.json.temperature, entry.json.electron_density, entry.json)

\* C1: after any sequence of runs on one output directory, no two samples of
\* the dataset have the same combination hash.
C1_NoDuplicateHash ==
    LET stored == Stored(fs.dataset)
    IN  \A a, b \in 1..Len(stored) : a # b => HashOf(stored[a]) # HashOf(stored[b])

\* the run found a dataset file whose grid is not the grid of the run
GridMismatch ==
    /\ hist.run >= 1
    /\ gen.config # None
    /\ hist.fs_at_start.dataset # None
    /\ hist.fs_at_start.dataset[1].wavelengths # None
    /\ hist.fs_at_start.dataset[1].wavelengths[1] # Wavelengths(gen.config[1])

Writing == {"open", "wavelengths", "groups", "done"}

\* C2: a run against a dataset file with another wavelength grid never gets
\* to write: it does not reach the writing of the file or a successful end,
\* and the dataset file is what it was at the start of the run.
C2_GridMismatchNoWrite ==
    GridMismatch =>
        /\ gen.pc \notin Writing
        /\ fs.dataset = hist.fs_at_start.dataset

C2_Witness ==
    /\ GridMismatch
    /\ gen.pc = "raised"
    /\ gen.error = Some("Wavelengths tidak cocok")
    /\ Len(gen.spectra_list) > 0

\* C3: a run that has accepted no sample writes nothing: the dataset file,
\* the backups and the combination log are what they were at the start of the
\* run, the run does not get past the check of the sample lists, and it ends
\* with an error.
C3_NoSampleNoWrite ==
    (hist.run >= 1 /\ Len(gen.spectra_list) = 0) =>
        /\ fs = hist.fs_at_start
        /\ gen.pc \in {"attempt", "progress", "check", "raised"}
        /\ gen.pc = "raised" => gen.error # None

C3_Witness ==
    /\ hist.run >= 1
    /\ gen.pc = "raised"
    /\ gen.error = Some("Tidak ada sampel valid yang dihasilkan")
    /\ Len(gen.spectra_list) = 0
    /\ fs = hist.fs_at_start

Lists == <<gen.spectra_list, gen.labels_list, gen.wavelengths_list, gen.atom_percentages_list>>

\* C4: in every slot generate_sample is called at most 5 times, a failed and
\* a duplicate candidate each cost one attempt, at most one sample is accepted
\* and no call follows it; a slot is given up only after 5 rejected calls, and
\* giving it up adds no sample, raises nothing and goes on to the progress
\* report of the slot.
C4_Attempts ==
    /\ [](gen.pc \in {"attempt", "progress"} =>
            /\ hist.calls <= MaxAttempts
            /\ hist.slot_accepted <= 1
            /\ hist.calls = hist.slot_accepted + hist.slot_rejected
            /\ gen.attempt = hist.slot_rejected
            /\ gen.sample_generated <=> hist.slot_accepted = 1
            /\ Len(gen.spectra_list) <= gen.i
            /\ (gen.pc = "progress" /\ hist.slot_accepted = 0) =>
                  (hist.calls = MaxAttempts /\ gen.error = None))
    /\ [][(gen.pc = "attempt" /\ (gen.sample_generated \/ gen.attempt >= MaxAttempts)) =>
             /\ gen'.pc = "progress"
             /\ gen'.error = None
             /\ Lists' = Lists
             /\ rng' = rng
             /\ fs' = fs]_vars

C4_Witness ==
    /\ gen.pc = "attempt"
    /\ gen.i = 4
    /\ Len(gen.spectra_list) = 2
    /\ hist.calls = 3
    /\ hist.slot_rejected = 3

\* C5 as stated: a second run with the same configuration, on the files a
\* completed first run left, its combination log included, accepts no sample.
C5_Original ==
    (/\ hist.run = 2
     /\ hist.configs[2] = hist.configs[1]
     /\ hist.fs_at_start.dataset # None
     /\ hist.persisted[2]) =>
        Len(gen.spectra_list) = 0

\* C5 amended: a later run with the configuration of the first run starts
\* with the candidate the first run started with, and no run accepts a sample
\* whose hash is in the combination log it loaded; candidates that follow a
\* rejection may be new, so a second run can accept samples.
C5_Replay ==
    hist.run >= 1 =>
        /\ \A j \in 1..Len(gen.atom_percentages_list) :
              HashCombination(gen.atom_percentages_list[j].temperature,
                              gen.atom_percentages_list[j].electron_density,
                              gen.atom_percentages_list[j])
                  \notin LoadUsedCombinations(hist.fs_at_start.log)
        /\ \A r \in 2..hist.run :
              (hist.configs[r] = hist.configs[1] /\ hist.first[r] # None) =>
                  hist.first[r] = hist.first[1]
        /\ \A r \in 2..hist.run :
              hist.persisted[r] =>
                  \A q \in 1..(r - 1) : hist.accepted[r] \cap hist.accepted[q] = {}

C5_Witness ==
    /\ hist.run = 2
    /\ hist.configs[2] = hist.configs[1]
    /\ hist.fs_at_start.dataset # None
    /\ hist.persisted[2]
    /\ hist.accepted[1] # {}
    /\ hist.first[2] = hist.first[1]
    /\ hist.first[2] # None /\ hist.first[2][1] # None
    /\ hist.first[2][1][1] \in hist.accepted[1]
    /\ Len(gen.spectra_list) > 0
    /\ gen.pc = "done"

\* the group of a split in a file, empty when the file has none
GroupOf(dataset, name) ==
    IF dataset # None /\ name \in DOMAIN dataset[1].groups
    THEN dataset[1].groups[name]
    ELSE EmptyGroup

\* C6: after a successful run on an existing dataset file, every split of the
\* file is what it was before the run, in the same order, followed by the new
\* entries of the run for the split, and its three arrays have one length.
C6_AppendOrder ==
    (gen.pc = "done" /\ hist.fs_at_start.dataset # None) =>
        \A j \in 1..Len(SplitNames) :
            LET old == GroupOf(hist.fs_at_start.dataset, SplitNames[j])
                new == gen.new_data[1][SplitNames[j]]
                now == GroupOf(fs.dataset, SplitNames[j])
            IN  /\ SplitNames[j] \in DOMAIN fs.dataset[1].groups
                /\ now.spectra = old.spectra \o new.spectra
                /\ now.labels = old.labels \o new.labels
                /\ now.atom_percentages = old.atom_percentages \o new.atom_percentages
                /\ Len(now.spectra) = Len(now.labels)
                /\ Len(now.spectra) = Len(now.atom_percentages)

C6_Witness ==
    /\ gen.pc = "done"
    /\ hist.fs_at_start.dataset # None
    /\ \E j \in 1..Len(SplitNames) :
          /\ Len(GroupOf(hist.fs_at_start.dataset, SplitNames[j]).spectra) > 0
          /\ Len(gen.new_data[1][SplitNames[j]].spectra) > 0
          /\ Len(GroupOf(fs.dataset, SplitNames[j]).spectra)
                > Len(gen.new_data[1][SplitNames[j]].spectra)

\* C7: when a run finds a dataset file, the file is copied, contents
\* unchanged, to a new backup before the persistence step reads or writes it,
\* and the file is never changed in a run without that backup.
C7_BackupFirst ==
    (hist.run >= 1 /\ hist.fs_at_start.dataset # None) =>
        /\ (gen.pc \in {"read"} \cup Writing \/ fs.dataset # hist.fs_at_start.dataset) =>
              fs.backups = Append(hist.fs_at_start.backups, hist.fs_at_start.dataset[1])
        /\ gen.pc \in {"attempt", "progress", "check", "split", "backup"} =>
              fs.dataset = hist.fs_at_start.dataset

C7_Witness ==
    /\ hist.run >= 2
    /\ hist.fs_at_start.dataset # None
    /\ gen.pc = "done"
    /\ fs.dataset # hist.fs_at_start.dataset
    /\ fs.backups = Append(hist.fs_at_start.backups, hist.fs_at_start.dataset[1])

\* the grid bins nearest a wavelength
NearestBins(wl, cfg) ==
    LET wavelengths == Wavelengths(cfg)
        dist(k) == IF wavelengths[k] >= wl THEN wavelengths[k] - wl ELSE wl - wavelengths[k]
    IN  {k \in 1..cfg.resolution : \A j \in 1..cfg.resolution : dist(k) <= dist(j)}

\* C11: for a species with a single transition inside the grid, the spectrum
\* simulate produces is positive and has its maximum at a grid bin nearest
\* the transition wavelength, wherever in the grid the transition lies.
C11_PeakAtLine ==
    (/\ ssim.spectrum # None
     /\ Len(ssim.nist_data) = 1
     /\ ssim.cfg[1].wl_range[1] <= ssim.nist_data[1].wl
     /\ ssim.nist_data[1].wl <= ssim.cfg[1].wl_range[2]) =>
        \E k \in NearestBins(ssim.nist_data[1].wl, ssim.cfg[1]) :
            /\ ssim.spectrum[1][k] > 0
            /\ ssim.spectrum[1][k] = MaxSeq(ssim.spectrum[1])

\* the sum of the quotients q[s], s in S, as a quotient in lowest terms
RECURSIVE QuotientSum(_, _)
QuotientSum(q, S) ==
    IF S = {} THEN <<0, 1>>
    ELSE LET s    == CHOOSE x \in S : TRUE
             rest == QuotientSum(q, S \ {s})
         IN  Reduce(<<q[s][1] * rest[2] + rest[1] * q[s][2], q[s][2] * rest[2]>>)

\* C12: in every sample generate_sample returns, the species percentages sum
\* to 100, also when selected elements were skipped for lack of an ionization
\* energy; no percentage is negative, and an included element's share, 100
\* times its drawn total over the sum of the drawn totals of the included
\* elements, is split 1/(1+S) to the neutral and S/(1+S) to the ion.
C12_SumTo100 ==
    (mix.pc = "returned" /\ mix.result[4] # None) =>
        LET elements == mix.result[4][1].elements
            total    == SumSeq([j \in 1..Len(mix.draw.sel) |->
                                   IF mix.draw.sel[j] \in Usable
                                   THEN mix.draw.tot[mix.draw.sel[j]] ELSE 0])
        IN  /\ QuotientSum(elements, DOMAIN elements) = <<100, 1>>
            /\ \A s \in DOMAIN elements : elements[s][1] >= 0 /\ elements[s][2] > 0
            /\ \A e \in Usable :
                  LET S == SahaRatio(mix.ionization_energies[e], mix.current_T,
                                     mix.current_n_e)
                  IN  /\ elements[<<e, 1>>][1] * (S[1] + S[2]) * total
                            = 100 * mix.draw.tot[e] * S[2] * elements[<<e, 1>>][2]
                      /\ elements[<<e, 2>>][1] * (S[1] + S[2]) * total
                            = 100 * mix.draw.tot[e] * S[1] * elements[<<e, 2>>][2]

C12_Witness ==
    /\ mix.pc = "returned"
    /\ mix.result[4] # None
    /\ SomeEnergyMissing
    /\ Cardinality(Usable) = NumTargetElements - 1
    /\ QuotientSum(mix.result[4][1].elements, DOMAIN mix.result[4][1].elements) = <<100, 1>>
    /\ \E e \in Usable : mix.result[4][1].elements[<<e, 1>>] # mix.result[4][1].elements[<<e, 2>>]

\* C13: a call of _gaussian_profile or of simulate keeps every cached profile
\* as it is and removes none; a center is computed once, when it is first
\* asked for, and adds one entry; a repeated request returns the array of the
\* first request and leaves the cache as it is.
C13_CacheStable ==
    /\ [](/\ ssim.computed = Cardinality(DOMAIN ssim.gaussian_cache)
          /\ DOMAIN ssim.first \subseteq DOMAIN ssim.gaussian_cache
          /\ \A c \in DOMAIN ssim.first : ssim.gaussian_cache[c] = ssim.first[c]
          /\ ssim.center # None => ssim.returned = Some(ssim.first[ssim.center[1]]))
    /\ [][/\ \A c \in DOMAIN ssim.gaussian_cache :
                /\ c \in DOMAIN ssim'.gaussian_cache
                /\ ssim'.gaussian_cache[c] = ssim.gaussian_cache[c]
          /\ (ssim'.center # None /\ ssim'.calls # ssim.calls
                /\ ssim'.spectrum = ssim.spectrum) =>
                DOMAIN ssim'.gaussian_cache = DOMAIN ssim.gaussian_cache \cup {ssim'.center[1]}]_vars

C13_Witness ==
    /\ ssim.calls = 3
    /\ ssim.computed = 2
    /\ ssim.spectrum # None
    /\ ssim.center # None
    /\ Cardinality(DOMAIN ssim.gaussian_cache) = 2
    /\ Len(ssim.nist_data) = 1
    /\ ssim.nist_data[1].wl \in DOMAIN ssim.first

\* C14: when a run fails on the wavelength grid of the existing dataset file,
\* the combination log holds exactly the records it held at the start of the
\* run and no file has been created, a backup included.
C14_MismatchNoWriteAtAll ==
    (/\ GridMismatch
     /\ gen.pc = "raised"
     /\ gen.error = Some("Wavelengths tidak cocok")) =>
        /\ fs.log = hist.fs_at_start.log
        /\ fs.backups = hist.fs_at_start.backups
        /\ fs.dir_exists = hist.fs_at_start.dir_exists

\* the dataset file holds the grid of the run and the merged entries of every
\* split
HoldsMerged(dataset) ==
    /\ dataset # None
    /\ gen.combined_data # None
    /\ dataset[1].wavelengths = Some(gen.wavelengths_list[1])
    /\ \A j \in 1..Len(SplitNames) :
          /\ SplitNames[j] \in DOMAIN dataset[1].groups
          /\ dataset[1].groups[SplitNames[j]] = gen.combined_data[1][SplitNames[j]]

\* C15: at every step of the writing of a run that found a dataset file, the
\* file holds either what it held at the start of the run or the merged
\* entries of all splits with the grid.
C15_AtomicReplace ==
    (/\ hist.run >= 1
     /\ hist.fs_at_start.dataset # None
     /\ gen.pc \in Writing) =>
        \/ fs.dataset = hist.fs_at_start.dataset
        \/ HoldsMerged(fs.dataset)

\* C16: the loop of a run goes through all N slots, whatever N >= 1 is: a
\* run that has left the loop has processed the last slot, and it has failed
\* only for want of samples or on the grid of the existing file.
C16_LoopCompletes ==
    (hist.run >= 1 /\ gen.pc \notin {"attempt", "progress"}) =>
        /\ gen.i = gen.config[1].num_samples
        /\ gen.pc = "raised" =>
              gen.error \in {Some("Tidak ada sampel valid yang dihasilkan"),
                             Some("Wavelengths tidak cocok")}

\* the temperature index of the pair at position p of the schedule, and the
\* number of pairs of that temperature up to p
TempIndex(p) == IndexIn(sched.cfg.temperature_range, sched.result[p][1])

Occurrence(p) == Cardinality({j \in 1..p : sched.result[j][1] = sched.result[p][1]})

\* C17: the schedule is the round-robin interleaving of the per-temperature
\* lists: the pairs come round by round and, within a round, in the order of
\* temperature_range; the pairs of a temperature are its list, in its order;
\* with two temperatures or more, consecutive pairs differ in temperature.
C17_RoundRobin ==
    sched.pc = "returned" =>
        LET cfg == sched.cfg
            k   == Len(cfg.temperature_range)
            N   == Len(sched.result)
        IN  /\ \A i \in 1..k :
                  SelectSeq(sched.result, LAMBDA pr : pr[1] = cfg.temperature_range[i])
                      = TempSpecificParams(i, cfg, sched.delta_E_max, sched.ch[1].temps[i])
            /\ \A p \in 1..N : \A r \in (p + 1)..N :
                  \/ Occurrence(p) < Occurrence(r)
                  \/ Occurrence(p) = Occurrence(r) /\ TempIndex(p) < TempIndex(r)
            /\ k >= 2 => \A p \in 1..(N - 1) : sched.result[p][1] # sched.result[p + 1][1]

C17_Witness ==
    /\ sched.pc = "returned"
    /\ Len(sched.cfg.temperature_range) = 3
    /\ Len(sched.cfg.electron_density_range) = 3
    /\ [p \in 1..Len(sched.result) |-> sched.result[p][1]]
           = <<6400, 10000, 14400, 6400, 10000>>
    /\ sched.result[1][2] # sched.result[4][2]

\* n_e is at or above the floor n_e_min, a quotient
AtOrAbove(n_e, n_e_min) == n_e * n_e_min[2] >= n_e_min[1]

\* n_e_min of temperature temp
FloorOf(temp) == CalculateLteElectronDensity(temp, DeltaEMaxValue(sched.delta_E_max))

\* the densities scheduled with temperature temp, in schedule order
DensitiesOf(temp) ==
    LET pairs == SelectSeq(sched.result, LAMBDA pr : pr[1] = temp)
    IN  [j \in 1..Len(pairs) |-> pairs[j][2]]

\* C18: every scheduled density is a configured candidate; it is at or above
\* n_e_min of its temperature whenever some candidate is, so that a density
\* below the floor is scheduled only when no candidate qualifies; a
\* temperature gets at most 5 distinct densities, at most as many as qualify,
\* its first pairs are distinct draws and the pairs beyond the pool repeat
\* densities of the pool.
C18_Densities ==
    sched.pc = "returned" =>
        LET candidates == Range(sched.cfg.electron_density_range)
        IN  \A i \in 1..Len(sched.cfg.temperature_range) :
            \A n_e_min \in {FloorOf(sched.cfg.temperature_range[i])} :
            \A densities \in {DensitiesOf(sched.cfg.temperature_range[i])} :
            \A qualified \in {{c \in candidates : AtOrAbove(c, n_e_min)}} :
            \A pool \in {Min(5, IF qualified = {} THEN Cardinality(candidates)
                                ELSE Cardinality(qualified))} :
                /\ Range(densities) \subseteq candidates
                /\ qualified # {} => Range(densities) \subseteq qualified
                /\ Cardinality(Range(densities)) <= pool
                /\ \A a, b \in 1..Min(pool, Len(densities)) :
                      a # b => densities[a] # densities[b]
                /\ \A a \in (pool + 1)..Len(densities) :
                      densities[a] \in {densities[b] : b \in 1..pool}

C18_Witness ==
    /\ sched.pc = "returned"
    /\ sched.cfg \in WideConfigs
    /\ Len(sched.result) = 6
    /\ \A c \in Range(sched.cfg.electron_density_range) : AtOrAbove(c, FloorOf(6400))
    /\ Cardinality(Range(DensitiesOf(6400))) = 5

\* what generate_sample summed at the bins of the returned sample
Contributions ==
    SelectedContributions(mix.simulators, SampleConfig, mix.ionization_energies,
                          mix.current_T, mix.current_n_e, mix.draw)

\* the summed contribution at bin k, a numerator over Contributions.den
TotalAt(k) ==
    SumSeq([j \in 1..Len(Contributions.element_contributions) |->
               Contributions.element_contributions[j][k]])

\* the catalog index of the first of the selected species, in simulator
\* order, whose contribution at bin k is the largest
DominantAt(k) ==
    LET ec   == Contributions.element_contributions
        sims == Contributions.selected_simulators
        j    == CHOOSE j \in 1..Len(ec) :
                    /\ \A i \in 1..Len(ec) : ec[i][k] <= ec[j][k]
                    /\ \A i \in 1..(j - 1) : ec[i][k] # ec[j][k]
    IN  CHOOSE c \in 1..Len(REQUIRED_ELEMENTS) :
            REQUIRED_ELEMENTS[c] = <<sims[j].element, sims[j].ion>>

\* every label is in 0..len(REQUIRED_ELEMENTS), and the dense contribution
\* array is non-zero at most in the column of the label
LabelsInCatalog ==
    LET labels == mix.result[3][1]
        dense  == ContributionsArray(labels, mix.result[2][1])
    IN  \A k \in 1..Len(labels) :
           /\ labels[k] \in 0..Len(REQUIRED_ELEMENTS)
           /\ \A c \in 1..Len(REQUIRED_ELEMENTS) : dense[k][c][1] # 0 => c = labels[k]

\* C19 as stated: the label of a bin is 0 when the summed contribution does
\* not exceed the threshold 0.01, and otherwise the catalog index + 1 of the
\* species with the largest contribution, the first in simulator order on
\* ties; labels are in 0..len(REQUIRED_ELEMENTS) and the dense contribution
\* array is non-zero only in the column of the label.
C19_Original ==
    (mix.pc = "returned" /\ mix.result # NoneResult) =>
        /\ \A k \in 1..SampleConfig.resolution :
              mix.result[3][1][k] = IF 100 * TotalAt(k) <= Contributions.den THEN 0
                                    ELSE DominantAt(k)
        /\ LabelsInCatalog

\* C19 amended: the label of a bin is 0 when the summed contribution is below
\* the threshold 0.01; a bin whose sum is equal to the threshold or above it
\* gets the catalog index + 1 of the species with the largest contribution,
\* the first in simulator order on ties; labels are in
\* 0..len(REQUIRED_ELEMENTS) and the dense contribution array is non-zero only
\* in the column of the label.
C19_Labels ==
    (mix.pc = "returned" /\ mix.result # NoneResult) =>
        /\ \A k \in 1..SampleConfig.resolution :
              mix.result[3][1][k] = IF 100 * TotalAt(k) < Contributions.den THEN 0
                                    ELSE DominantAt(k)
        /\ LabelsInCatalog

C19_Witness ==
    /\ mix.pc = "returned"
    /\ mix.result # NoneResult
    /\ \E k \in 1..SampleConfig.resolution :
          /\ 100 * TotalAt(k) = Contributions.den
          /\ mix.result[3][1][k] = 2
    /\ \E k \in 1..SampleConfig.resolution : mix.result[3][1][k] = 0

\* the records a reader of the log file gets
Records(file) == IF file = None \/ ~file[1].valid THEN <<>> ELSE file[1].data

\* C20: a call of _save_combination, whatever the read and the write meet,
\* leaves the records the log held in place, unchanged and in order, and adds
\* at most one record behind them.
C20_AppendOnly ==
    clog.calls > 0 =>
        LET old == Records(clog.before)
            new == Records(clog.file)
        IN  /\ Len(new) \in {Len(old), Len(old) + 1}
            /\ SubSeq(new, 1, Len(old)) = old

\* the records of the combination log on disk
LogRecords == IF fs.log = None THEN <<>> ELSE fs.log[1]

\* the sample_id values of the log are pairwise distinct
DistinctIds ==
    \A a, b \in 1..Len(LogRecords) :
        a # b => LogRecords[a].sample_id # LogRecords[b].sample_id

\* the hashes of the log are the hashes of the samples in the dataset file
LogMatchesDataset ==
    \A stored \in {Stored(fs.dataset)} :
        {LogRecords[j].hash : j \in 1..Len(LogRecords)}
            = {HashOf(stored[j]) : j \in 1..Len(stored)}

\* C21: at the end of every run, successful or failed, the hashes of the
\* combination log are exactly the hashes of the samples stored in the dataset
\* file, and the sample_id values of the log are pairwise distinct.
C21_LogMatchesDataset ==
    (hist.run >= 1 /\ gen.pc \in {"done", "raised"}) =>
        LogMatchesDataset /\ DistinctIds

====
